---- MODULE Spec2Model ----
(***************************************************************************)
(* Model of the configuration manager (src/config.py) and of the data      *)
(* source base class (src/data_collector.py).                              *)
(*                                                                         *)
(* A Python str is a sequence of one-character strings.  An Optional       *)
(* value (and an attribute that may not have been assigned yet) is a       *)
(* sequence of length 0 (None / not assigned) or 1 (the value).            *)
(***************************************************************************)
EXTENDS Integers, Sequences, FiniteSets, TLC

VARIABLES
    environ,        \* os.environ after load_dotenv(): variable -> Optional str
    files,          \* the paths that exist on disk
    _instance,      \* Config._instance: 0 is None, otherwise an object id
    heap,           \* the Config objects allocated so far: id -> attributes
    log,            \* the error-level entries written through logging.error
    returned,       \* the outcome of each Config() request, in order
    initCalls,      \* how many times Config._initialize has run
    twitter_access, \* the last value read from has_twitter_access, if any
    sources,        \* the data source objects allocated so far
    constructed     \* the outcome of each DataSource(...) construction, in order

vars == <<environ, files, _instance, heap, log, returned, initCalls,
          twitter_access, sources, constructed>>

configVars == <<_instance, heap, log, returned, initCalls>>
sourceVars == <<sources, constructed>>

(***************************************************************************)
(* Bounds of the model.                                                    *)
(***************************************************************************)
MaxRequests == 3
MaxTokenLen == 52
MaxSources == 3

(***************************************************************************)
(* The string literals of src/config.py.                                   *)
(***************************************************************************)

DefaultProjectId ==
    <<"m", "a", "r", "k", "e", "t", "-", "s", "e", "n", "t", "i", "m", "e",
      "n", "t", "-", "a", "n", "a", "l", "y", "z", "e", "r">>

DefaultServiceAccount ==
    <<".", "/", "s", "e", "r", "v", "i", "c", "e", "_", "a", "c", "c", "o",
      "u", "n", "t", ".", "j", "s", "o", "n">>

DefaultDatabaseUrl ==
    <<"h", "t", "t", "p", "s", ":", "/", "/", "m", "a", "r", "k", "e", "t",
      "-", "s", "e", "n", "t", "i", "m", "e", "n", "t", "-", "a", "n", "a",
      "l", "y", "z", "e", "r", ".", "f", "i", "r", "e", "b", "a", "s", "e",
      "i", "o", ".", "c", "o", "m">>

DefaultSymbols ==
    <<"A", "A", "P", "L", ",", "G", "O", "O", "G", "L", ",", "M", "S", "F",
      "T">>

DefaultInterval ==
    <<"1", "5">>

DefaultThreshold ==
    <<"0", ".", "3">>

DefaultLogLevel ==
    <<"I", "N", "F", "O">>

FileNotFoundPrefix ==
    <<"F", "i", "r", "e", "b", "a", "s", "e", " ", "s", "e", "r", "v", "i",
      "c", "e", " ", "a", "c", "c", "o", "u", "n", "t", " ", "f", "i", "l",
      "e", " ", "n", "o", "t", " ", "f", "o", "u", "n", "d", ":", " ">>

LogPrefix ==
    <<"C", "o", "n", "f", "i", "g", "u", "r", "a", "t", "i", "o", "n", " ",
      "i", "n", "i", "t", "i", "a", "l", "i", "z", "a", "t", "i", "o", "n",
      " ", "f", "a", "i", "l", "e", "d", ":", " ">>

\* The messages of the ValueError that int() and float() raise.

IntErrPrefix ==
    <<"i", "n", "v", "a", "l", "i", "d", " ", "l", "i", "t", "e", "r", "a",
      "l", " ", "f", "o", "r", " ", "i", "n", "t", "(", ")", " ", "w", "i",
      "t", "h", " ", "b", "a", "s", "e", " ", "1", "0", ":", " ">>

FloatErrPrefix ==
    <<"c", "o", "u", "l", "d", " ", "n", "o", "t", " ", "c", "o", "n", "v",
      "e", "r", "t", " ", "s", "t", "r", "i", "n", "g", " ", "t", "o", " ",
      "f", "l", "o", "a", "t", ":", " ">>

\* The list literal of AnalysisConfig.__post_init__.
DataclassSymbols ==
    <<<<"A", "A", "P", "L">>,
      <<"G", "O", "O", "G", "L">>,
      <<"M", "S", "F", "T">>,
      <<"T", "S", "L", "A">>,
      <<"B", "T", "C", "-", "U", "S", "D">>>>

(***************************************************************************)
(* Python values.                                                          *)
(***************************************************************************)
None == <<>>
Some(v) == <<v>>
Get(o) == o[1]

NoExc == [type |-> "", msg |-> <<>>]

Digits == <<"0", "1", "2", "3", "4", "5", "6", "7", "8", "9">>
IsDigit(c) == \E i \in 1..10 : Digits[i] = c
DigitValue(c) == (CHOOSE i \in 1..10 : Digits[i] = c) - 1

UpperCase == <<"A", "B", "C", "D", "E", "F", "G", "H", "I", "J", "K", "L", "M",
               "N", "O", "P", "Q", "R", "S", "T", "U", "V", "W", "X", "Y", "Z">>
LowerCase == <<"a", "b", "c", "d", "e", "f", "g", "h", "i", "j", "k", "l", "m",
               "n", "o", "p", "q", "r", "s", "t", "u", "v", "w", "x", "y", "z">>
LowerChar(c) ==
    IF \E i \in 1..26 : UpperCase[i] = c
    THEN LowerCase[CHOOSE i \in 1..26 : UpperCase[i] = c]
    ELSE c
Lower(s) == [i \in 1..Len(s) |-> LowerChar(s[i])]

IsSpace(c) == c \in {" ", "\t", "\n", "\r"}

RECURSIVE LStrip(_)
LStrip(s) == IF s # <<>> /\ IsSpace(Head(s)) THEN LStrip(Tail(s)) ELSE s

RECURSIVE RStrip(_)
RStrip(s) ==
    IF s # <<>> /\ IsSpace(s[Len(s)]) THEN RStrip(SubSeq(s, 1, Len(s) - 1)) ELSE s

Strip(s) == RStrip(LStrip(s))

\* repr() of a str that holds neither quotes nor escapes: the text in quotes.
Repr(s) == <<"'">> \o s \o <<"'">>

\* The first index of character c in s, or 0.
IndexOf(s, c) ==
    IF \E i \in 1..Len(s) : s[i] = c
    THEN CHOOSE i \in 1..Len(s) : s[i] = c /\ \A j \in 1..(i - 1) : s[j] # c
    ELSE 0

\* str.split(sep) for a one-character separator.
RECURSIVE Split(_, _)
Split(s, sep) ==
    LET i == IndexOf(s, sep)
    IN  IF i = 0 THEN <<s>>
        ELSE <<SubSeq(s, 1, i - 1)>> \o Split(SubSeq(s, i + 1, Len(s)), sep)

\* A run of digits in which single underscores may separate digits.
IsDigitPart(s) ==
    /\ s # <<>>
    /\ \A i \in 1..Len(s) : IsDigit(s[i]) \/ s[i] = "_"
    /\ IsDigit(s[1]) /\ IsDigit(s[Len(s)])
    /\ \A i \in 1..(Len(s) - 1) : ~(s[i] = "_" /\ s[i + 1] = "_")

RECURSIVE DigitsValue(_)
DigitsValue(s) ==
    IF s = <<>> THEN 0
    ELSE LET front == SubSeq(s, 1, Len(s) - 1)
             c == s[Len(s)]
         IN  IF c = "_" THEN DigitsValue(front)
             ELSE 10 * DigitsValue(front) + DigitValue(c)

RECURSIVE CountDigits(_)
CountDigits(s) ==
    IF s = <<>> THEN 0
    ELSE (IF IsDigit(Head(s)) THEN 1 ELSE 0) + CountDigits(Tail(s))

HasSign(s) == s # <<>> /\ s[1] \in {"+", "-"}
Unsigned(s) == IF HasSign(s) THEN Tail(s) ELSE s
IsNegative(s) == s # <<>> /\ s[1] = "-"

\* int(s) for a str s, base 10.
PyInt(s) ==
    LET t == Strip(s)
        body == Unsigned(t)
    IN  IF IsDigitPart(body)
        THEN [raised |-> FALSE,
              val |-> IF IsNegative(t) THEN 0 - DigitsValue(body) ELSE DigitsValue(body),
              exc |-> NoExc]
        ELSE [raised |-> TRUE, val |-> 0,
              exc |-> [type |-> "ValueError", msg |-> IntErrPrefix \o Repr(s)]]

\* A float, as the decimal number it denotes: (-1)^neg * m * 10^e with m not a
\* multiple of 10 (m = 0, e = 0 for zero), or an infinity, or the NaN.  The
\* inputs of the model have few significant digits, so the decimal names the
\* double that float() returns.
Finite(neg, m, e) == [kind |-> "finite", neg |-> neg, m |-> m, e |-> e]
Infinity(neg) == [kind |-> "inf", neg |-> neg, m |-> 0, e |-> 0]
NaN == [kind |-> "nan", neg |-> FALSE, m |-> 0, e |-> 0]

RECURSIVE Normalize(_, _, _)
Normalize(neg, m, e) ==
    IF m = 0 THEN Finite(FALSE, 0, 0)
    ELSE IF m % 10 = 0 THEN Normalize(neg, m \div 10, e + 1)
    ELSE Finite(neg, m, e)

\* The special values float() accepts in any letter case.
FloatInfinityWords == {<<"i", "n", "f">>, <<"i", "n", "f", "i", "n", "i", "t", "y">>}
FloatNaNWord == <<"n", "a", "n">>

\* The index of the exponent marker of a decimal literal, or 0.
ExponentIndex(s) ==
    IF \E i \in 1..Len(s) : s[i] \in {"e", "E"}
    THEN CHOOSE i \in 1..Len(s) :
            s[i] \in {"e", "E"} /\ \A j \in 1..(i - 1) : s[j] \notin {"e", "E"}
    ELSE 0

\* [digitpart] ["." [digitpart]] with at least one digit.
IsPointFloat(s) ==
    LET p == IndexOf(s, ".")
        ip == IF p = 0 THEN s ELSE SubSeq(s, 1, p - 1)
        fp == IF p = 0 THEN <<>> ELSE SubSeq(s, p + 1, Len(s))
    IN  /\ ip = <<>> \/ IsDigitPart(ip)
        /\ fp = <<>> \/ IsDigitPart(fp)
        /\ ip # <<>> \/ fp # <<>>

IsExponent(s) == IsDigitPart(Unsigned(s))

IsDecimalFloat(s) ==
    LET x == ExponentIndex(s)
    IN  IF x = 0 THEN IsPointFloat(s)
        ELSE IsPointFloat(SubSeq(s, 1, x - 1)) /\ IsExponent(SubSeq(s, x + 1, Len(s)))

DecimalValue(neg, s) ==
    LET x == ExponentIndex(s)
        mant == IF x = 0 THEN s ELSE SubSeq(s, 1, x - 1)
        expo == IF x = 0 THEN <<"0">> ELSE SubSeq(s, x + 1, Len(s))
        p == IndexOf(mant, ".")
        ip == IF p = 0 THEN mant ELSE SubSeq(mant, 1, p - 1)
        fp == IF p = 0 THEN <<>> ELSE SubSeq(mant, p + 1, Len(mant))
        ev == IF IsNegative(expo) THEN 0 - DigitsValue(Unsigned(expo))
              ELSE DigitsValue(Unsigned(expo))
    IN  Normalize(neg, DigitsValue(ip \o fp), ev - CountDigits(fp))

\* float(s) for a str s.
PyFloat(s) ==
    LET t == Strip(s)
        body == Unsigned(t)
        neg == IsNegative(t)
        ok(v) == [raised |-> FALSE, val |-> v, exc |-> NoExc]
    IN  IF Lower(body) \in FloatInfinityWords THEN ok(Infinity(neg))
        ELSE IF Lower(body) = FloatNaNWord THEN ok(NaN)
        ELSE IF IsDecimalFloat(body) THEN ok(DecimalValue(neg, body))
        ELSE [raised |-> TRUE, val |-> NaN,
              exc |-> [type |-> "ValueError", msg |-> FloatErrPrefix \o Repr(s)]]

\* The default of AnalysisConfig.lookback_period_days.
DefaultLookbackDays == 7

(***************************************************************************)
(* The environment.                                                        *)
(***************************************************************************)
\* os.getenv(key, default)
getenv(env, key, default) == IF env[key] = None THEN default ELSE Get(env[key])

\* os.getenv(key): None when the variable is not set
getenvOptional(env, key) == env[key]

\* os.path.exists(path)
exists(fs, path) == path \in fs

(***************************************************************************)
(* The dataclasses.  A constructor returns the object, or the exception    *)
(* that __post_init__ raised.                                              *)
(***************************************************************************)
NoFirebase == [project_id |-> <<>>, service_account_path |-> <<>>, database_url |-> <<>>]

FirebaseConfig(fs, project_id, service_account_path, database_url) ==
    IF ~exists(fs, service_account_path)
    THEN [raised |-> TRUE, val |-> NoFirebase,
          exc |-> [type |-> "FileNotFoundError",
                   msg |-> FileNotFoundPrefix \o service_account_path]]
    ELSE [raised |-> FALSE,
          val |-> [project_id |-> project_id,
                   service_account_path |-> service_account_path,
                   database_url |-> database_url],
          exc |-> NoExc]

APIConfig(twitter_bearer_token, newsapi_key, alpha_vantage_key) ==
    [twitter_bearer_token |-> twitter_bearer_token,
     newsapi_key |-> newsapi_key,
     alpha_vantage_key |-> alpha_vantage_key]

\* The truth value of an Optional[str]: None and "" are false.
Truthy(o) == o # None /\ Len(Get(o)) > 0

TwitterTokenMinLen == 50

\* A variant that accepts a token of exactly TwitterTokenMinLen characters.
has_twitter_access_atLeast(api) ==
    IF ~Truthy(api.twitter_bearer_token) THEN FALSE
    ELSE Len(Get(api.twitter_bearer_token)) >= TwitterTokenMinLen

\* bool(token and len(token) > 50)
has_twitter_access(api) ==
    IF ~Truthy(api.twitter_bearer_token) THEN FALSE
    ELSE Len(Get(api.twitter_bearer_token)) > TwitterTokenMinLen

\* symbols_to_track is an Optional list; __post_init__ replaces None.
AnalysisConfig(symbols_to_track, update_interval_minutes, sentiment_threshold) ==
    [symbols_to_track |-> IF symbols_to_track = None THEN DataclassSymbols
                          ELSE Get(symbols_to_track),
     update_interval_minutes |-> update_interval_minutes,
     sentiment_threshold |-> sentiment_threshold,
     lookback_period_days |-> DefaultLookbackDays]

(***************************************************************************)
(* Config                                                                  *)
(***************************************************************************)
\* The attributes of a Config object that super().__new__(cls) has just made.
NoAttributes == [firebase |-> None, api |-> None, analysis |-> None, log_level |-> None]

\* A variant that re-raises without logging.
ExceptHandler_silent(attrs, e) ==
    [attrs |-> attrs, raised |-> TRUE, exc |-> e, log |-> <<>>]

\* except Exception as e: logging.error(f"Configuration initialization failed: {e}"); raise
ExceptHandler(attrs, e) ==
    [attrs |-> attrs, raised |-> TRUE, exc |-> e,
     log |-> <<[level |-> "ERROR", msg |-> LogPrefix \o e.msg]>>]

\* The arguments of AnalysisConfig(...) in _initialize: each is the value, or
\* the ValueError of the conversion.
\* A variant that leaves the default to the dataclass.
symbols_to_track_dataclassDefault(env) ==
    IF env["SYMBOLS_TO_TRACK"] = None THEN None
    ELSE Some(Split(Get(env["SYMBOLS_TO_TRACK"]), ","))

symbols_to_track(env) ==
    Some(Split(getenv(env, "SYMBOLS_TO_TRACK", DefaultSymbols), ","))
update_interval_minutes(env) == PyInt(getenv(env, "UPDATE_INTERVAL", DefaultInterval))
\* A variant that falls back to the default when the text does not parse.
sentiment_threshold_fallback(env) ==
    LET r == PyFloat(getenv(env, "SENTIMENT_THRESHOLD", DefaultThreshold))
    IN  IF r.raised THEN PyFloat(DefaultThreshold) ELSE r

sentiment_threshold(env) == PyFloat(getenv(env, "SENTIMENT_THRESHOLD", DefaultThreshold))

\* A variant that converts the analysis parameters before it validates the
\* credential file.
_initialize_analysisFirst(self, env, fs) ==
    LET firebase == FirebaseConfig(fs,
                        getenv(env, "FIREBASE_PROJECT_ID", DefaultProjectId),
                        getenv(env, "FIREBASE_SERVICE_ACCOUNT", DefaultServiceAccount),
                        getenv(env, "FIREBASE_DATABASE_URL", DefaultDatabaseUrl))
        api == APIConfig(getenvOptional(env, "TWITTER_BEARER_TOKEN"),
                         getenvOptional(env, "NEWSAPI_KEY"),
                         getenvOptional(env, "ALPHA_VANTAGE_KEY"))
        symbols == symbols_to_track(env)
        interval == update_interval_minutes(env)
        threshold == sentiment_threshold(env)
        self1 == [self EXCEPT !.analysis =
                     Some(AnalysisConfig(symbols, interval.val, threshold.val))]
        self2 == [self1 EXCEPT !.firebase = Some(firebase.val)]
        self3 == [self2 EXCEPT !.api = Some(api)]
        self4 == [self3 EXCEPT !.log_level = Some(getenv(env, "LOG_LEVEL", DefaultLogLevel))]
    IN  IF interval.raised THEN ExceptHandler(self, interval.exc)
        ELSE IF threshold.raised THEN ExceptHandler(self, threshold.exc)
        ELSE IF firebase.raised THEN ExceptHandler(self1, firebase.exc)
        ELSE [attrs |-> self4, raised |-> FALSE, exc |-> NoExc, log |-> <<>>]

\* Config._initialize on an object whose attributes are self: the attributes
\* it leaves, the exception it raises if any, and what it logs.  The try block
\* assigns firebase, api, analysis and log_level in this order; the arguments
\* of AnalysisConfig are evaluated left to right.
_initialize(self, env, fs) ==
    LET firebase == FirebaseConfig(fs,
                        getenv(env, "FIREBASE_PROJECT_ID", DefaultProjectId),
                        getenv(env, "FIREBASE_SERVICE_ACCOUNT", DefaultServiceAccount),
                        getenv(env, "FIREBASE_DATABASE_URL", DefaultDatabaseUrl))
        api == APIConfig(getenvOptional(env, "TWITTER_BEARER_TOKEN"),
                         getenvOptional(env, "NEWSAPI_KEY"),
                         getenvOptional(env, "ALPHA_VANTAGE_KEY"))
        symbols == symbols_to_track(env)
        interval == update_interval_minutes(env)
        threshold == sentiment_threshold(env)
        self1 == [self EXCEPT !.firebase = Some(firebase.val)]
        self2 == [self1 EXCEPT !.api = Some(api)]
        self3 == [self2 EXCEPT !.analysis =
                     Some(AnalysisConfig(symbols, interval.val, threshold.val))]
        self4 == [self3 EXCEPT !.log_level = Some(getenv(env, "LOG_LEVEL", DefaultLogLevel))]
    IN  IF firebase.raised THEN ExceptHandler(self, firebase.exc)
        ELSE IF interval.raised THEN ExceptHandler(self2, interval.exc)
        ELSE IF threshold.raised THEN ExceptHandler(self2, threshold.exc)
        ELSE [attrs |-> self4, raised |-> FALSE, exc |-> NoExc, log |-> <<>>]

Returned(id) == [raised |-> FALSE, exc |-> NoExc, inst |-> id]
Raised(e) == [raised |-> TRUE, exc |-> e, inst |-> 0]

\* Config.__new__ when cls._instance is None: the object is stored in
\* cls._instance before _initialize runs on it.
NewInstance ==
    LET id == Len(heap) + 1
        r == _initialize(NoAttributes, environ, files)
    IN  /\ _instance' = id
        /\ heap' = Append(heap, r.attrs)
        /\ initCalls' = initCalls + 1
        /\ log' = log \o r.log
        /\ returned' = Append(returned, IF r.raised THEN Raised(r.exc) ELSE Returned(id))

\* Config.__new__ when cls._instance is set: return cls._instance.
SharedInstance ==
    /\ returned' = Append(returned, Returned(_instance))
    /\ UNCHANGED <<_instance, heap, initCalls, log>>

\* A variant of Config.__new__ when cls._instance is set: _initialize runs
\* again on the shared object.
ReloadedInstance ==
    LET r == _initialize(heap[_instance], environ, files)
    IN  /\ heap' = [heap EXCEPT ![_instance] = r.attrs]
        /\ initCalls' = initCalls + 1
        /\ log' = log \o r.log
        /\ returned' = Append(returned,
                           IF r.raised THEN Raised(r.exc) ELSE Returned(_instance))
        /\ UNCHANGED _instance

\* A variant of Config() without the test of cls._instance.
ConfigNew_alwaysNew ==
    /\ Len(returned) < MaxRequests
    /\ NewInstance
    /\ UNCHANGED <<environ, files, twitter_access, sourceVars>>

\* A variant of Config() that reloads the shared instance on every request.
ConfigNew_reload ==
    /\ Len(returned) < MaxRequests
    /\ IF _instance = 0 THEN NewInstance ELSE ReloadedInstance
    /\ UNCHANGED <<environ, files, twitter_access, sourceVars>>

\* A request Config().
ConfigNew ==
    /\ Len(returned) < MaxRequests
    /\ IF _instance = 0 THEN NewInstance ELSE SharedInstance
    /\ UNCHANGED <<environ, files, twitter_access, sourceVars>>

\* A caller reads config.api.has_twitter_access of the instance it was given.
ReadTwitterAccess ==
    /\ returned # <<>> /\ ~returned[Len(returned)].raised
    /\ heap[returned[Len(returned)].inst].api # None
    /\ twitter_access' = Some(has_twitter_access(Get(heap[returned[Len(returned)].inst].api)))
    /\ UNCHANGED <<environ, files, configVars, sourceVars>>

(***************************************************************************)
(* The environment of the process: the variables load_dotenv() and the     *)
(* shell have set, and the files on disk.                                  *)
(***************************************************************************)
Token(n) == [i \in 1..n |-> "x"]

OtherServiceAccount == <<"/", "k">>
Paths == {DefaultServiceAccount, OtherServiceAccount}

ProjectIds == {None, Some(<<"p">>)}
ServiceAccounts == {None, Some(OtherServiceAccount)}
DatabaseUrls == {None, Some(<<"u">>)}
BearerTokens == {None, Some(Token(TwitterTokenMinLen + 1))}
NewsapiKeys == {None, Some(<<"n">>)}
AlphaVantageKeys == {None, Some(<<"a">>)}
FiveSymbolsText ==
    <<"A", "A", "P", "L", ",", "G", "O", "O", "G", "L", ",", "M", "S", "F",
      "T", ",", "T", "S", "L", "A", ",", "B", "T", "C", "-", "U", "S", "D">>
SymbolTexts == {None, Some(FiveSymbolsText), Some(<<"T", "S", "L", "A">>), Some(<<>>)}
IntervalTexts == {None, Some(<<"3", "0">>), Some(<<"a", "b", "c">>),
                  Some(<<"3", ".", "5">>), Some(<<>>)}
ThresholdTexts == {None, Some(<<"0", ".", "5">>), Some(<<"a", "b", "c">>),
                   Some(<<"n", "a", "n">>)}
LogLevels == {None, Some(<<"D", "E", "B", "U", "G">>)}

Environments ==
    [FIREBASE_PROJECT_ID : ProjectIds,
     FIREBASE_SERVICE_ACCOUNT : ServiceAccounts,
     FIREBASE_DATABASE_URL : DatabaseUrls,
     TWITTER_BEARER_TOKEN : BearerTokens,
     NEWSAPI_KEY : NewsapiKeys,
     ALPHA_VANTAGE_KEY : AlphaVantageKeys,
     SYMBOLS_TO_TRACK : SymbolTexts,
     UPDATE_INTERVAL : IntervalTexts,
     SENTIMENT_THRESHOLD : ThresholdTexts,
     LOG_LEVEL : LogLevels]

\* Nothing set: every os.getenv returns its default.
EmptyEnvironment ==
    [FIREBASE_PROJECT_ID |-> None, FIREBASE_SERVICE_ACCOUNT |-> None,
     FIREBASE_DATABASE_URL |-> None, TWITTER_BEARER_TOKEN |-> None,
     NEWSAPI_KEY |-> None, ALPHA_VANTAGE_KEY |-> None, SYMBOLS_TO_TRACK |-> None,
     UPDATE_INTERVAL |-> None, SENTIMENT_THRESHOLD |-> None, LOG_LEVEL |-> None]

\* The process before the module body of config.py reaches Config().
InitProcess ==
    /\ _instance = 0
    /\ heap = <<>>
    /\ log = <<>>
    /\ returned = <<>>
    /\ initCalls = 0
    /\ twitter_access = None
    /\ sources = <<>>
    /\ constructed = <<>>

(***************************************************************************)
(* Spec: startup in every environment, then further requests.              *)
(***************************************************************************)
Init ==
    /\ environ \in Environments
    /\ files \in SUBSET Paths
    /\ InitProcess

Next == ConfigNew

Spec == Init /\ [][Next]_vars

(***************************************************************************)
(* SpecLive: the environment and the disk change while requests go on.     *)
(***************************************************************************)
LiveEnvironments ==
    [FIREBASE_PROJECT_ID : ProjectIds,
     FIREBASE_SERVICE_ACCOUNT : ServiceAccounts,
     FIREBASE_DATABASE_URL : {None},
     TWITTER_BEARER_TOKEN : BearerTokens,
     NEWSAPI_KEY : {None},
     ALPHA_VANTAGE_KEY : {None},
     SYMBOLS_TO_TRACK : {None},
     UPDATE_INTERVAL : {None, Some(<<"3", "0">>), Some(<<"a", "b", "c">>)},
     SENTIMENT_THRESHOLD : {None},
     LOG_LEVEL : LogLevels]

EnvKeys == DOMAIN EmptyEnvironment

\* os.environ[key] = value, or del os.environ[key]: one variable changes.
ChangeEnviron ==
    /\ \E e \in LiveEnvironments :
          /\ Cardinality({k \in EnvKeys : e[k] # environ[k]}) = 1
          /\ environ' = e
    /\ UNCHANGED <<files, configVars, twitter_access, sourceVars>>

\* The file at a path is created.
CreateFile ==
    /\ \E p \in Paths \ files : files' = files \cup {p}
    /\ UNCHANGED <<environ, configVars, twitter_access, sourceVars>>

\* The file at a path is removed.
RemoveFile ==
    /\ \E p \in files : files' = files \ {p}
    /\ UNCHANGED <<environ, configVars, twitter_access, sourceVars>>

InitLive ==
    /\ environ \in LiveEnvironments
    /\ files \in SUBSET Paths
    /\ InitProcess

NextLive == ConfigNew \/ ChangeEnviron \/ CreateFile \/ RemoveFile

SpecLive == InitLive /\ [][NextLive]_vars

(***************************************************************************)
(* SpecAPI: bearer tokens of every length up to MaxTokenLen.               *)
(***************************************************************************)
InitAPI ==
    /\ \E token \in {None} \cup {Some(Token(n)) : n \in 0..MaxTokenLen} :
       \E news \in NewsapiKeys :
       \E alpha \in AlphaVantageKeys :
          environ = [EmptyEnvironment EXCEPT !.TWITTER_BEARER_TOKEN = token,
                                             !.NEWSAPI_KEY = news,
                                             !.ALPHA_VANTAGE_KEY = alpha]
    /\ files \in SUBSET Paths
    /\ InitProcess

NextAPI == ConfigNew \/ ReadTwitterAccess

SpecAPI == InitAPI /\ [][NextAPI]_vars

(***************************************************************************)
(* DataSource                                                              *)
(***************************************************************************)
\* The methods of class DataSource(ABC) declared with @abstractmethod: none.
\* ABCMeta refuses to instantiate a class only when this set is not empty.
DataSourceAbstractMethods == {}

\* A variant that strips the name before it stores it.
DataSourceInit_stripped(self, source_name) ==
    [self EXCEPT !.source_name = Strip(source_name)]

\* DataSource.__init__
DataSourceInit(self, source_name) == [self EXCEPT !.source_name = source_name]

SourceNames == {<<>>, <<"t">>, <<"n">>, <<"p">>, <<" ", "n", " ">>}

\* DataSource(source_name), after "from config import config" has succeeded.
NewDataSource ==
    /\ Len(constructed) < MaxSources
    /\ returned # <<>> /\ ~returned[1].raised
    /\ \E source_name \in SourceNames :
          IF DataSourceAbstractMethods # {}
          THEN /\ constructed' = Append(constructed,
                      [cls |-> "DataSource", arg |-> source_name, raised |-> TRUE, obj |-> 0])
               /\ UNCHANGED sources
          ELSE /\ sources' = Append(sources,
                      DataSourceInit([cls |-> "DataSource", source_name |-> <<>>], source_name))
               /\ constructed' = Append(constructed,
                      [cls |-> "DataSource", arg |-> source_name, raised |-> FALSE,
                       obj |-> Len(sources) + 1])
    /\ UNCHANGED <<environ, files, configVars, twitter_access>>

InitSources ==
    /\ environ = EmptyEnvironment
    /\ files \in SUBSET Paths
    /\ InitProcess

NextSources == ConfigNew \/ NewDataSource

SpecSources == InitSources /\ [][NextSources]_vars

(***************************************************************************)
(* The claims.                                                             *)
(***************************************************************************)
\* sub occurs in s as a contiguous run
Contains(s, sub) ==
    \E i \in 0..(Len(s) - Len(sub)) : SubSeq(s, i + 1, i + Len(sub)) = sub

\* The credential path the environment names (in Spec the environment never
\* changes, so this is also the path of the first request).
ConfiguredPath ==
    IF environ.FIREBASE_SERVICE_ACCOUNT = None
    THEN <<".", "/", "s", "e", "r", "v", "i", "c", "e", "_", "a", "c", "c", "o",
           "u", "n", "t", ".", "j", "s", "o", "n">>
    ELSE Get(environ.FIREBASE_SERVICE_ACCOUNT)

FirstSucceeded == returned # <<>> /\ ~returned[1].raised
FirstFailed == returned # <<>> /\ returned[1].raised

Populated(obj) ==
    obj.firebase # None /\ obj.api # None /\ obj.analysis # None /\ obj.log_level # None

\* C1: in a run of Config() requests whose first request initializes
\* successfully, every request returns the instance of the first one, and
\* _initialize has run exactly once (at the first request: not before it, and
\* not again), whatever happens to the environment or the disk in between.
C1_SingletonIdentity ==
    /\ returned = <<>> => initCalls = 0
    /\ FirstSucceeded =>
          /\ initCalls = 1
          /\ \A i \in 1..Len(returned) :
                ~returned[i].raised /\ returned[i].inst = returned[1].inst

\* C1 witness: a second request served after the environment moved away from
\* what the instance was built from.
C1_Witness ==
    /\ FirstSucceeded /\ Len(returned) >= 2
    /\ returned[2].inst = returned[1].inst
    /\ heap[_instance].log_level # Some(getenv(environ, "LOG_LEVEL", DefaultLogLevel))

\* C2: no partial configuration: an instance a caller obtains has firebase,
\* api, analysis and log_level, and once a request has raised no later request
\* returns an instance.
C2_NoPartialConfiguration ==
    \A i \in 1..Len(returned) :
        ~returned[i].raised =>
            /\ Populated(heap[returned[i].inst])
            /\ \A j \in 1..(i - 1) : ~returned[j].raised

\* C3: when the credential path does not exist, the initializing request
\* raises FileNotFoundError with a message that contains the path, whatever
\* the other variables hold (a malformed UPDATE_INTERVAL or
\* SENTIMENT_THRESHOLD included).
C3_MissingCredentialFile ==
    (returned # <<>> /\ ~exists(files, ConfiguredPath)) =>
        /\ returned[1].raised
        /\ returned[1].exc.type = "FileNotFoundError"
        /\ Contains(returned[1].exc.msg, ConfiguredPath)

\* C3 witness: the path is missing and both numeric variables are malformed.
C3_Witness ==
    /\ FirstFailed /\ ~exists(files, ConfiguredPath)
    /\ environ.UPDATE_INTERVAL = Some(<<"a", "b", "c">>)
    /\ environ.SENTIMENT_THRESHOLD = Some(<<"a", "b", "c">>)
    /\ returned[1].exc.type = "FileNotFoundError"

\* C4: DataSource itself cannot be instantiated: every DataSource(name) raises
\* and no object of class DataSource exists.
C4_DataSourceNotInstantiable ==
    /\ \A i \in 1..Len(constructed) :
          constructed[i].cls = "DataSource" =>
              constructed[i].raised /\ constructed[i].obj = 0
    /\ \A j \in 1..Len(sources) : sources[j].cls # "DataSource"

ThreeSymbols ==
    <<<<"A", "A", "P", "L">>, <<"G", "O", "O", "G", "L">>, <<"M", "S", "F", "T">>>>

FiveSymbols ==
    <<<<"A", "A", "P", "L">>, <<"G", "O", "O", "G", "L">>, <<"M", "S", "F", "T">>,
      <<"T", "S", "L", "A">>, <<"B", "T", "C", "-", "U", "S", "D">>>>

TrackedSymbols == Get(heap[returned[1].inst].analysis).symbols_to_track

\* C5, as claimed: with SYMBOLS_TO_TRACK unset the tracked symbols are AAPL,
\* GOOGL, MSFT in this order, and in no environment are they the five symbols
\* of the dataclass default.
C5_NeverFiveSymbols ==
    FirstSucceeded =>
        /\ environ.SYMBOLS_TO_TRACK = None => TrackedSymbols = ThreeSymbols
        /\ TrackedSymbols # FiveSymbols

\* C5, amended: with SYMBOLS_TO_TRACK unset the tracked symbols are AAPL,
\* GOOGL, MSFT in this order; they are the five symbols of the dataclass
\* default only when SYMBOLS_TO_TRACK itself spells those five symbols.
C5_ThreeSymbolDefault ==
    FirstSucceeded =>
        /\ environ.SYMBOLS_TO_TRACK = None => TrackedSymbols = ThreeSymbols
        /\ TrackedSymbols = FiveSymbols =>
              environ.SYMBOLS_TO_TRACK = Some(FiveSymbolsText)

\* C5 witness: a configuration initialized with SYMBOLS_TO_TRACK unset.
C5_Witness ==
    FirstSucceeded /\ environ.SYMBOLS_TO_TRACK = None /\ TrackedSymbols = ThreeSymbols

\* C6: has_twitter_access reads true exactly when the bearer token is present
\* and longer than 50 characters: true at 51, false from 0 to 50 and when the
\* token is absent.
C6_TwitterAccess ==
    twitter_access # None =>
        LET token == environ.TWITTER_BEARER_TOKEN
        IN  /\ Get(twitter_access) = (token # None /\ Len(Get(token)) >= 51)
            /\ token = None => Get(twitter_access) = FALSE
            /\ (token # None /\ Len(Get(token)) \in 0..50) => Get(twitter_access) = FALSE
            /\ (token # None /\ Len(Get(token)) = 51) => Get(twitter_access) = TRUE

\* C6 witness: the property was read as true on a 51-character token.
C6_Witness ==
    /\ twitter_access = Some(TRUE)
    /\ environ.TWITTER_BEARER_TOKEN # None
    /\ Len(Get(environ.TWITTER_BEARER_TOKEN)) = 51

Digitless(s) == \A i \in 1..Len(s) : ~IsDigit(s[i])

Interval == Get(heap[returned[1].inst].analysis).update_interval_minutes
Threshold == Get(heap[returned[1].inst].analysis).sentiment_threshold

\* C7, as claimed: with the credential file present, initialization fails and
\* leaves no analysis parameters whenever UPDATE_INTERVAL or
\* SENTIMENT_THRESHOLD holds a string that is not numeric (here: one without
\* any digit); otherwise an initialized configuration carries 30 for "30",
\* 0.5 for "0.5", and 15 and 0.3 for the unset variables.
C7_NonNumericFails ==
    (returned # <<>> /\ exists(files, ConfiguredPath)) =>
        LET iv == environ.UPDATE_INTERVAL
            th == environ.SENTIMENT_THRESHOLD
        IN  IF (iv # None /\ Digitless(Get(iv))) \/ (th # None /\ Digitless(Get(th)))
            THEN returned[1].raised /\ heap[1].analysis = None
            ELSE ~returned[1].raised =>
                    /\ iv = None => Interval = 15
                    /\ iv = Some(<<"3", "0">>) => Interval = 30
                    /\ th = None => Threshold = Finite(FALSE, 3, 0 - 1)
                    /\ th = Some(<<"0", ".", "5">>) => Threshold = Finite(FALSE, 5, 0 - 1)

\* What int() makes of the UPDATE_INTERVAL texts of the model, None when it
\* rejects the text: "3.5" is a number and is rejected.
ExpectedInterval(text) ==
    IF text = None THEN Some(15)
    ELSE IF text = Some(<<"3", "0">>) THEN Some(30)
    ELSE None

\* What float() makes of the SENTIMENT_THRESHOLD texts of the model, None when
\* it rejects the text: "nan" is no number and is accepted.
ExpectedThreshold(text) ==
    IF text = None THEN Some(Finite(FALSE, 3, 0 - 1))
    ELSE IF text = Some(<<"0", ".", "5">>) THEN Some(Finite(FALSE, 5, 0 - 1))
    ELSE IF text = Some(<<"n", "a", "n">>) THEN Some(NaN)
    ELSE None

\* C7, amended: with the credential file present, UPDATE_INTERVAL is carried
\* as int() of its text and SENTIMENT_THRESHOLD as float() of its text (15 and
\* 0.3 when unset); initialization raises ValueError and leaves no analysis
\* parameters exactly when int() or float() rejects the text, which int() does
\* for "abc", "" and "3.5" and float() does for "abc" but not for "nan".
C7_ParsedOrRejected ==
    (returned # <<>> /\ exists(files, ConfiguredPath)) =>
        LET iv == ExpectedInterval(environ.UPDATE_INTERVAL)
            th == ExpectedThreshold(environ.SENTIMENT_THRESHOLD)
        IN  IF iv = None \/ th = None
            THEN /\ returned[1].raised
                 /\ returned[1].exc.type = "ValueError"
                 /\ heap[1].analysis = None
            ELSE /\ ~returned[1].raised
                 /\ Interval = Get(iv)
                 /\ Threshold = Get(th)

\* C7 witness: "30" is carried as 30 and "nan" as the NaN.
C7_Witness ==
    /\ FirstSucceeded
    /\ environ.UPDATE_INTERVAL = Some(<<"3", "0">>)
    /\ environ.SENTIMENT_THRESHOLD = Some(<<"n", "a", "n">>)
    /\ Interval = 30 /\ Threshold.kind = "nan"

\* C8, as claimed: a construction with the empty name is rejected, and every
\* data source has a source_name that is not empty and is the string it was
\* constructed with.
C8_NonEmptySourceName ==
    \A i \in 1..Len(constructed) :
        /\ constructed[i].arg = <<>> => constructed[i].raised
        /\ ~constructed[i].raised =>
              /\ sources[constructed[i].obj].source_name # <<>>
              /\ sources[constructed[i].obj].source_name = constructed[i].arg

\* C8, amended: a construction is accepted with any string, the empty one
\* included, and every data source has as source_name the very string it was
\* constructed with.
C8_SourceNameStored ==
    \A i \in 1..Len(constructed) :
        /\ ~constructed[i].raised
        /\ constructed[i].obj \in 1..Len(sources)
        /\ sources[constructed[i].obj].source_name = constructed[i].arg

\* C8 witness: a data source constructed with the empty name, and one with a
\* name that has spaces around it.
C8_Witness ==
    /\ \E i \in 1..Len(constructed) :
          constructed[i].arg = <<>> /\ sources[constructed[i].obj].source_name = <<>>
    /\ \E i \in 1..Len(constructed) :
          sources[constructed[i].obj].source_name = <<" ", "n", " ">>

\* C9: once the first request has initialized successfully, no step (a change
\* of a variable, a file created or removed, a further request) changes the
\* attributes of the shared instance, replaces the instance, logs an error or
\* makes a request raise.
C9_ReadOnlyAfterInit ==
    [][FirstSucceeded =>
          /\ _instance' = _instance
          /\ heap'[_instance'] = heap[_instance]
          /\ log' = log
          /\ \A i \in 1..Len(returned') : ~returned'[i].raised]_vars

\* C9 witness: requests were served after the credential file of the shared
\* instance was removed and LOG_LEVEL was changed.
C9_Witness ==
    /\ FirstSucceeded /\ Len(returned) >= 3
    /\ ~exists(files, Get(heap[_instance].firebase).service_account_path)
    /\ heap[_instance].log_level # Some(getenv(environ, "LOG_LEVEL", DefaultLogLevel))
    /\ environ.UPDATE_INTERVAL = Some(<<"a", "b", "c">>)

\* C10: a failing initialization writes exactly one entry, at error level,
\* that carries the message of the exception the request raises; a successful
\* initialization, and a request that does not initialize, write none.
C10_OneErrorEntryPerFailure ==
    /\ returned = <<>> => log = <<>>
    /\ FirstSucceeded => log = <<>>
    /\ FirstFailed =>
          /\ Len(log) = 1
          /\ log[1].level = "ERROR"
          /\ returned[1].exc.type \in {"FileNotFoundError", "ValueError"}
          /\ returned[1].exc.msg # <<>>
          /\ Len(log[1].msg) > Len(returned[1].exc.msg)
          /\ Contains(log[1].msg, returned[1].exc.msg)

\* C10 witness: a malformed SENTIMENT_THRESHOLD made the initialization fail,
\* and further requests followed.
C10_Witness ==
    /\ FirstFailed /\ Len(returned) >= 2
    /\ returned[1].exc.type = "ValueError"
    /\ Contains(returned[1].exc.msg, <<"f", "l", "o", "a", "t">>)
    /\ Len(log) = 1
====
